---- MODULE Spec2Model ----
(***************************************************************************)
(* Model of the GraphRAG indexing and query pipelines:                     *)
(*   src/src/graph_pipeline.py   extract_entities_relationships,           *)
(*                               build_knowledge_graph, detect_communities,*)
(*                               summarize_communities                     *)
(*   src/scripts/run_indexing.py main                                      *)
(*   src/scripts/run_query.py    main                                      *)
(*                                                                         *)
(* A text is modelled line by line.  A line is either a relationship line  *)
(* "- <s> -> <r> -> <t>" (a field may be blank) or an entity bullet        *)
(* "- <s>".  A text is a head (what precedes the lines: it holds the       *)
(* "Relationships:" marker, or not) and its lines.                         *)
(***************************************************************************)
EXTENDS Naturals, Sequences, FiniteSets, TLC

VARIABLES
    pc,                  \* position of the running script / function
    pdf_url,             \* args.pdf_url is set
    pdfExists,           \* os.path.exists(args.pdf_path)
    units,               \* len(df_text_units)
    llmCreated,          \* an LLMHandler has been constructed
    llmCalls,            \* number of llm.get_response / model invocations issued
    elements,            \* extract_entities_relationships: elements
    failedUnits,         \* indices of the text units whose model call raised
    bi,                  \* build_knowledge_graph: index i of the summary being parsed
    pos,                 \* build_knowledge_graph: line at which finditer resumes
    graph,               \* the nx.Graph G
    applied,             \* triples that reached G.add_edge, in processing order
    comps,               \* detect_communities: components still to be processed
    all_communities,     \* detect_communities: all_communities
    fellBack,            \* components handled by the except branch
    partitioned,         \* components whose partition was mapped back
    communities,         \* summarize_communities: its communities argument
    community_summaries, \* summarize_communities: community_summaries
    summaryCalls,        \* the summarization calls: prompt data and outcome
    artifacts,           \* persisted artifacts written so far
    summariesFile,       \* run_query: the file at args.summaries_path
    loaded,              \* run_query: community_summaries as loaded
    partials,            \* generate_global_answer: partial answers of the map phase
    answer               \* run_query: final_answer

vars == <<pc, pdf_url, pdfExists, units, llmCreated, llmCalls, elements,
          failedUnits, bi, pos, graph, applied, comps, all_communities,
          fellBack, partitioned, communities, community_summaries,
          summaryCalls, artifacts, summariesFile, loaded, partials, answer>>

mainVars == <<pdf_url, pdfExists, units, artifacts>>
llmVars == <<llmCreated, llmCalls>>
extractVars == <<elements, failedUnits>>
buildVars == <<bi, pos, graph, applied>>
detectVars == <<comps, all_communities, fellBack, partitioned>>
sumVars == <<communities, community_summaries, summaryCalls>>
queryVars == <<summariesFile, loaded, partials, answer>>

-----------------------------------------------------------------------------
(* Bounds *)

MaxUnits == 2
MaxLines == 3
MaxComms == 2
MaxRecords == 3

-----------------------------------------------------------------------------
(* Texts *)

Rel(s, r, t) == [kind |-> "rel", s |-> s, r |-> r, t |-> t]
Ent(s) == [kind |-> "ent", s |-> s, r |-> "", t |-> ""]

\* The text of a line with surrounding whitespace removed.
LineText(l) ==
    IF l.kind = "ent" THEN "- " \o l.s
    ELSE IF l.t = "" THEN "- " \o l.s \o " -> " \o l.r \o " ->"
    ELSE "- " \o l.s \o " -> " \o l.r \o " -> " \o l.t

MarkerHead == "Entities:\n- A\n- B\n\nRelationships:"
PlainHead == "Entities:\n- A\n- B"

Text(head, lines) == [head |-> head, lines |-> lines]

\* elements.append("Error: Failed to extract elements.")
ExtractSentinel == Text("Error: Failed to extract elements.", <<>>)

\* "Relationships:" in summary  (no line of the model contains the marker)
HasMarker(summary) == summary.head = MarkerHead

\* rel_pattern.finditer(summary), resumed at line p: the first match at or
\* after line p.  "." does not cross a newline but "\s*" does: after the
\* second "->" of a line whose third field is blank, "\s*" runs over the
\* newline and group 3 is the whole next line; finditer resumes after it.
\* The groups are returned stripped.
RECURSIVE NextMatch(_, _)
NextMatch(lines, p) ==
    IF p > Len(lines) THEN [found |-> FALSE]
    ELSE LET l == lines[p] IN
         IF l.kind # "rel" THEN NextMatch(lines, p + 1)
         ELSE IF l.t = "" /\ p < Len(lines)
              THEN [found |-> TRUE, source |-> l.s, relation |-> l.r,
                    target |-> LineText(lines[p + 1]), end |-> p + 2]
              ELSE [found |-> TRUE, source |-> l.s, relation |-> l.r,
                    target |-> l.t, end |-> p + 1]

\* if not source or not relation or not target: continue
Malformed(m) == m.source = "" \/ m.relation = "" \/ m.target = ""

Triple(m) == [source |-> m.source, relation |-> m.relation, target |-> m.target]

-----------------------------------------------------------------------------
(* Graph: nx.Graph as its nodes in insertion order and a label per          *)
(* unordered node pair (a self-loop is the pair {x}).                      *)

EmptyGraph == [nodes |-> <<>>, label |-> [e \in {} |-> ""]]

NodeSet(G) == {G.nodes[i] : i \in 1..Len(G.nodes)}
Edges(G) == DOMAIN G.label

\* G.add_node(n)
AddNode(G, n) ==
    IF n \in NodeSet(G) THEN G ELSE [G EXCEPT !.nodes = Append(G.nodes, n)]

\* add_edge that leaves the attributes of an existing edge alone.
AddEdgeKeepFirst(G, u, v, relation) ==
    LET H == AddNode(AddNode(G, u), v) IN
    [H EXCEPT !.label = [e \in DOMAIN H.label \cup {{u, v}} |->
                            IF e \in DOMAIN H.label THEN H.label[e] ELSE relation]]

\* G.add_edge(u, v, label=relation): adds missing endpoints, and updates the
\* attributes of an edge that is already there.
AddEdge(G, u, v, relation) ==
    LET H == AddNode(AddNode(G, u), v) IN
    [H EXCEPT !.label = [e \in DOMAIN H.label \cup {{u, v}} |->
                            IF e = {u, v} THEN relation ELSE H.label[e]]]

\* The edge drawn from the source to the relation, labelled with the target.
ApplyTripleSwapped(G, t) ==
    AddEdge(AddNode(AddNode(G, t.source), t.target), t.source, t.relation, t.target)

\* lines 86-88
ApplyTriple(G, t) ==
    AddEdge(AddNode(AddNode(G, t.source), t.target), t.source, t.target, t.relation)

\* build_knowledge_graph as a function: the matches of one summary folded
\* into G (lines 75-91), then the summaries in order (lines 69-72).
RECURSIVE FoldMatches(_, _, _)
FoldMatches(G, lines, p) ==
    LET m == NextMatch(lines, p) IN
    IF ~m.found THEN G
    ELSE FoldMatches(IF Malformed(m) THEN G ELSE ApplyTriple(G, Triple(m)),
                     lines, m.end)

RECURSIVE FoldSummaries(_, _, _)
FoldSummaries(G, summaries, i) ==
    IF i > Len(summaries) THEN G
    ELSE FoldSummaries(IF HasMarker(summaries[i])
                       THEN FoldMatches(G, summaries[i].lines, 1) ELSE G,
                       summaries, i + 1)

BuildGraph(element_summaries) == FoldSummaries(EmptyGraph, element_summaries, 1)

-----------------------------------------------------------------------------
(* Inputs *)

NodeNames == <<"A", "B", "C">>
Names == {NodeNames[i] : i \in 1..Len(NodeNames)}

\* Lines a model response is made of: well-formed lines (one of them naming
\* the pair of another in the other direction), lines with one blank field,
\* and an entity bullet.
LineSet ==
    { Rel("A", "r", "B"), Rel("B", "s", "A"), Rel("B", "r", "C"),
      Rel("A", "r", ""), Rel("A", "", "B"), Ent("A") }

LineSeqs(n) == UNION {[1..k -> LineSet] : k \in 0..n}

Heads == {MarkerHead, PlainHead, ExtractSentinel.head}

Monotone(cut) == \A i, j \in DOMAIN cut : i <= j => cut[i] <= cut[j]

\* The lines of ls that cut sends to block b, in order.
RECURSIVE LinesOf(_, _, _, _)
LinesOf(ls, cut, b, i) ==
    IF i > Len(ls) THEN <<>>
    ELSE (IF cut[i] = b THEN <<ls[i]>> ELSE <<>>) \o LinesOf(ls, cut, b, i + 1)

\* Responses of the extraction model in a run of the indexing script.
Responses ==
    { Text(MarkerHead, <<Rel("A", "", "C"), Rel("A", "r", "B")>>),
      Text(MarkerHead, <<Rel("B", "s", "A"), Rel("C", "r", "C")>>),
      Text(PlainHead, <<Rel("A", "r", "C")>>),
      Text(MarkerHead, <<Rel("A", "r", ""), Rel("B", "r", "C")>>) }

-----------------------------------------------------------------------------
(* extract_entities_relationships *)

\* lines 48-50: the model call returns
ExtractOk ==
    /\ pc = "extract"
    /\ Len(elements) < units
    /\ \E response \in Responses : elements' = Append(elements, response)
    /\ llmCalls' = llmCalls + 1
    /\ UNCHANGED <<pc, failedUnits, llmCreated, mainVars, buildVars, detectVars,
                   sumVars, queryVars>>

\* A failed call that appends the response of the previous unit again.
ExtractFailStale ==
    /\ pc = "extract"
    /\ Len(elements) < units
    /\ elements' = Append(elements, IF Len(elements) = 0 THEN ExtractSentinel
                                    ELSE elements[Len(elements)])
    /\ failedUnits' = failedUnits \cup {Len(elements) + 1}
    /\ llmCalls' = llmCalls + 1
    /\ UNCHANGED <<pc, llmCreated, mainVars, buildVars, detectVars, sumVars,
                   queryVars>>

\* lines 51-53: the model call raises
ExtractFail ==
    /\ pc = "extract"
    /\ Len(elements) < units
    /\ elements' = Append(elements, ExtractSentinel)
    /\ failedUnits' = failedUnits \cup {Len(elements) + 1}
    /\ llmCalls' = llmCalls + 1
    /\ UNCHANGED <<pc, llmCreated, mainVars, buildVars, detectVars, sumVars,
                   queryVars>>

\* line 55, then line 63 of build_knowledge_graph
ExtractReturn ==
    /\ pc = "extract"
    /\ Len(elements) = units
    /\ pc' = "build"
    /\ bi' = 1
    /\ pos' = 1
    /\ graph' = EmptyGraph
    /\ applied' = <<>>
    /\ UNCHANGED <<extractVars, llmVars, mainVars, detectVars, sumVars, queryVars>>

-----------------------------------------------------------------------------
(* build_knowledge_graph *)

\* lines 70-72
BuildSkip ==
    /\ pc = "build"
    /\ bi <= Len(elements)
    /\ ~HasMarker(elements[bi])
    /\ bi' = bi + 1
    /\ pos' = 1
    /\ UNCHANGED <<pc, graph, applied, extractVars, llmVars, mainVars, detectVars,
                   sumVars, queryVars>>

\* lines 75-88: the next match is applied to G
BuildApply ==
    /\ pc = "build"
    /\ bi <= Len(elements)
    /\ HasMarker(elements[bi])
    /\ LET m == NextMatch(elements[bi].lines, pos) IN
         /\ m.found
         /\ ~Malformed(m)
         /\ graph' = ApplyTriple(graph, Triple(m))
         /\ applied' = Append(applied, Triple(m))
         /\ pos' = m.end
    /\ UNCHANGED <<pc, bi, extractVars, llmVars, mainVars, detectVars, sumVars,
                   queryVars>>

\* lines 75-83: the next match has an empty field
BuildDiscard ==
    /\ pc = "build"
    /\ bi <= Len(elements)
    /\ HasMarker(elements[bi])
    /\ LET m == NextMatch(elements[bi].lines, pos) IN
         /\ m.found
         /\ Malformed(m)
         /\ pos' = m.end
    /\ UNCHANGED <<pc, bi, graph, applied, extractVars, llmVars, mainVars,
                   detectVars, sumVars, queryVars>>

\* line 75: finditer is exhausted
BuildNextSummary ==
    /\ pc = "build"
    /\ bi <= Len(elements)
    /\ HasMarker(elements[bi])
    /\ ~NextMatch(elements[bi].lines, pos).found
    /\ bi' = bi + 1
    /\ pos' = 1
    /\ UNCHANGED <<pc, graph, applied, extractVars, llmVars, mainVars, detectVars,
                   sumVars, queryVars>>

-----------------------------------------------------------------------------
(* detect_communities *)

Neighbours(G, n) == {m \in NodeSet(G) : {n, m} \in Edges(G)}

RECURSIVE Reach(_, _)
Reach(G, S) ==
    LET T == S \cup UNION {Neighbours(G, n) : n \in S} IN
    IF T = S THEN S ELSE Reach(G, T)

\* nx.connected_components(graph): the component of each node not seen yet,
\* in node order.
RECURSIVE ComponentsFrom(_, _, _)
ComponentsFrom(G, i, seen) ==
    IF i > Len(G.nodes) THEN <<>>
    ELSE IF G.nodes[i] \in seen THEN ComponentsFrom(G, i + 1, seen)
    ELSE LET c == Reach(G, {G.nodes[i]}) IN
         <<c>> \o ComponentsFrom(G, i + 1, seen \cup c)

ConnectedComponents(G) == ComponentsFrom(G, 1, {})

\* The nodes of S as a list.  The code lists a set (list(component)) or the
\* vertices of the subgraph in ascending id; the model lists them in the
\* graph's node order.
RECURSIVE ListFrom(_, _, _)
ListFrom(nodes, S, i) ==
    IF i > Len(nodes) THEN <<>>
    ELSE (IF nodes[i] \in S THEN <<nodes[i]>> ELSE <<>>) \o ListFrom(nodes, S, i + 1)

ListOf(G, S) == ListFrom(G.nodes, S, 1)

\* What leidenalg.find_partition can return for a component: its vertices
\* split into k non-empty communities, in any order of the communities.
Partitions(c) ==
    UNION { { [b \in 1..k |-> {n \in c : f[n] = b}] :
                f \in {g \in [c -> 1..k] : \A b \in 1..k : \E n \in c : g[n] = b} }
            : k \in 1..Cardinality(c) }

\* lines 128-130: each community of the partition mapped back to node names
RECURSIVE NamedCommunities(_, _, _)
NamedCommunities(G, partition, i) ==
    IF i > Len(partition) THEN <<>>
    ELSE <<ListOf(G, partition[i])>> \o NamedCommunities(G, partition, i + 1)

\* A fallback that keeps a component only when it has more than one node.
FallbackDropsSingletons(G, component) ==
    IF Cardinality(component) > 1 THEN <<ListOf(G, component)>> ELSE <<>>

\* lines 136-137
FallbackCommunities(G, component) ==
    IF Cardinality(component) > 0 THEN <<ListOf(G, component)>> ELSE <<>>

\* line 93-94, then lines 101-108 of detect_communities
BuildReturn ==
    /\ pc = "build"
    /\ bi > Len(elements)
    /\ pc' = "detect"
    /\ comps' = ConnectedComponents(graph)
    /\ all_communities' = <<>>
    /\ fellBack' = {}
    /\ partitioned' = {}
    /\ UNCHANGED <<buildVars, extractVars, llmVars, mainVars, sumVars, queryVars>>

\* lines 109-130: the component is converted and partitioned.  The vertex
\* ids of the partition are the keys of int_to_name_map, so the lookups of
\* line 129 find every id; the partition is written over the node names.
DetectPartition ==
    /\ pc = "detect"
    /\ comps # <<>>
    /\ \E partition \in Partitions(Head(comps)) :
         /\ all_communities' =
                all_communities \o NamedCommunities(graph, partition, 1)
         /\ partitioned' =
                partitioned \cup {[component |-> Head(comps), partition |-> partition]}
    /\ comps' = Tail(comps)
    /\ UNCHANGED <<pc, fellBack, buildVars, extractVars, llmVars, mainVars, sumVars,
                   queryVars>>

\* lines 109-123, 132-137: find_partition raises
DetectFallback ==
    /\ pc = "detect"
    /\ comps # <<>>
    /\ all_communities' = all_communities \o FallbackCommunities(graph, Head(comps))
    /\ fellBack' = fellBack \cup {Head(comps)}
    /\ comps' = Tail(comps)
    /\ UNCHANGED <<pc, partitioned, buildVars, extractVars, llmVars, mainVars,
                   sumVars, queryVars>>

\* lines 109-116: ig.Graph.from_networkx or the read of the "name" vertex
\* attribute raises; both stand before the try, so the exception leaves
\* detect_communities.
DetectConvertFail ==
    /\ pc = "detect"
    /\ comps # <<>>
    /\ pc' = "raised"
    /\ UNCHANGED <<detectVars, buildVars, extractVars, llmVars, mainVars, sumVars,
                   queryVars>>

\* lines 139-140, then lines 148-149 of summarize_communities
DetectReturn ==
    /\ pc = "detect"
    /\ comps = <<>>
    /\ pc' = "summarize"
    /\ communities' = all_communities
    /\ community_summaries' = <<>>
    /\ summaryCalls' = <<>>
    /\ UNCHANGED <<detectVars, buildVars, extractVars, llmVars, mainVars, queryVars>>

-----------------------------------------------------------------------------
(* summarize_communities *)

SummarySentinel == "Error: Failed to generate summary."

\* What the summarization model can answer: any text.
SummaryResponses == {"A summary of the community.", SummarySentinel}

SetOf(seq) == {seq[i] : i \in 1..Len(seq)}

\* graph.subgraph(community_nodes).edges(data=True): every edge of the graph
\* between two nodes of S, reported once, from the endpoint that comes first.
\* graph.edges(community_nodes): every edge with an endpoint in S.
RECURSIVE IncidentEdgesFromNode(_, _, _, _)
IncidentEdgesFromNode(G, S, i, j) ==
    IF j > Len(G.nodes) THEN <<>>
    ELSE (IF /\ G.nodes[i] \in S \/ G.nodes[j] \in S
             /\ {G.nodes[i], G.nodes[j]} \in Edges(G)
          THEN <<[u |-> G.nodes[i],
                  label |-> G.label[{G.nodes[i], G.nodes[j]}],
                  v |-> G.nodes[j]]>>
          ELSE <<>>) \o IncidentEdgesFromNode(G, S, i, j + 1)

RECURSIVE EdgesFromNode(_, _, _, _)
EdgesFromNode(G, S, i, j) ==
    IF j > Len(G.nodes) THEN <<>>
    ELSE (IF /\ G.nodes[i] \in S
             /\ G.nodes[j] \in S
             /\ {G.nodes[i], G.nodes[j]} \in Edges(G)
          THEN <<[u |-> G.nodes[i],
                  label |-> G.label[{G.nodes[i], G.nodes[j]}],
                  v |-> G.nodes[j]]>>
          ELSE <<>>) \o EdgesFromNode(G, S, i, j + 1)

RECURSIVE SubgraphEdges(_, _, _)
SubgraphEdges(G, S, i) ==
    IF i > Len(G.nodes) THEN <<>>
    ELSE EdgesFromNode(G, S, i, i) \o SubgraphEdges(G, S, i + 1)

\* lines 155-163: community_data, as its "Entities:" bullets and its
\* "Relationships:" lines "- u -> label -> v"
Render(G, community_nodes) ==
    [entities |-> community_nodes,
     relationships |-> SubgraphEdges(G, SetOf(community_nodes), 1)]

\* lines 165-177: the model call returns
SummarizeOk ==
    /\ pc = "summarize"
    /\ Len(community_summaries) < Len(communities)
    /\ LET i == Len(community_summaries) IN
         \E summary \in SummaryResponses :
            /\ summaryCalls' =
                   Append(summaryCalls,
                          [community_data |-> Render(graph, communities[i + 1]),
                           raised |-> FALSE, response |-> summary])
            /\ community_summaries' =
                   Append(community_summaries,
                          [community_id |-> i, nodes |-> communities[i + 1],
                           summary |-> summary])
    /\ llmCalls' = llmCalls + 1
    /\ UNCHANGED <<pc, communities, llmCreated, detectVars, buildVars,
                   extractVars, mainVars, queryVars>>

\* A failed call that is not caught: the exception leaves the function.
SummarizeFailAborts ==
    /\ pc = "summarize"
    /\ Len(community_summaries) < Len(communities)
    /\ pc' = "raised"
    /\ llmCalls' = llmCalls + 1
    /\ UNCHANGED <<sumVars, llmCreated, detectVars, buildVars, extractVars,
                   mainVars, queryVars>>

\* lines 178-184: the model call raises
SummarizeFail ==
    /\ pc = "summarize"
    /\ Len(community_summaries) < Len(communities)
    /\ LET i == Len(community_summaries) IN
         /\ summaryCalls' =
                Append(summaryCalls,
                       [community_data |-> Render(graph, communities[i + 1]),
                        raised |-> TRUE, response |-> ""])
         /\ community_summaries' =
                Append(community_summaries,
                       [community_id |-> i, nodes |-> communities[i + 1],
                        summary |-> SummarySentinel])
    /\ llmCalls' = llmCalls + 1
    /\ UNCHANGED <<pc, communities, llmCreated, detectVars, buildVars, extractVars,
                   mainVars, queryVars>>

\* lines 186-187
SummarizeReturn ==
    /\ pc = "summarize"
    /\ Len(community_summaries) = Len(communities)
    /\ pc' = "save_graph"
    /\ UNCHANGED <<sumVars, llmVars, detectVars, buildVars, extractVars, mainVars,
                   queryVars>>

-----------------------------------------------------------------------------
(* run_indexing.py: main *)

\* lines 25-26: download_pdf returns, leaving the file or not, or raises
MainDownload ==
    /\ pc = "start"
    /\ pdf_url
    /\ \/ /\ pc' = "check_pdf"
          /\ pdfExists' \in BOOLEAN
       \/ /\ pc' = "raised"
          /\ UNCHANGED pdfExists
    /\ UNCHANGED <<pdf_url, units, artifacts, llmVars, extractVars, buildVars,
                   detectVars, sumVars, queryVars>>

\* line 25: no url given
MainNoDownload ==
    /\ pc = "start"
    /\ ~pdf_url
    /\ pc' = "check_pdf"
    /\ UNCHANGED <<mainVars, llmVars, extractVars, buildVars, detectVars, sumVars,
                   queryVars>>

\* lines 28-30
MainPdfMissing ==
    /\ pc = "check_pdf"
    /\ ~pdfExists
    /\ pc' = "exit_no_pdf"
    /\ UNCHANGED <<mainVars, llmVars, extractVars, buildVars, detectVars, sumVars,
                   queryVars>>

\* lines 33-36: load_and_split_docs returns n text units (None or an empty
\* frame: n = 0), or raises
MainLoad ==
    /\ pc = "check_pdf"
    /\ pdfExists
    /\ \/ \E n \in 0..MaxUnits :
            /\ units' = n
            /\ pc' = IF n = 0 THEN "exit_no_units" ELSE "init_llm"
       \/ /\ pc' = "raised"
          /\ UNCHANGED units
    /\ UNCHANGED <<pdf_url, pdfExists, artifacts, llmVars, extractVars, buildVars,
                   detectVars, sumVars, queryVars>>

\* line 39, then lines 42-43 of extract_entities_relationships
MainInitLLM ==
    /\ pc = "init_llm"
    /\ \/ /\ llmCreated' = TRUE
          /\ pc' = "extract"
          /\ elements' = <<>>
          /\ failedUnits' = {}
       \/ /\ pc' = "raised"
          /\ UNCHANGED <<llmCreated, elements, failedUnits>>
    /\ UNCHANGED <<llmCalls, mainVars, buildVars, detectVars, sumVars, queryVars>>

\* The graph file written as soon as the graph is built.
MainSaveGraphAfterBuild ==
    /\ pc = "detect"
    /\ "knowledge_graph.gml" \notin artifacts
    /\ artifacts' = artifacts \cup {"knowledge_graph.gml"}
    /\ UNCHANGED <<pc, pdf_url, pdfExists, units, llmVars, extractVars, buildVars,
                   detectVars, sumVars, queryVars>>

\* lines 54-60: the graph file is written
MainSaveGraph ==
    /\ pc = "save_graph"
    /\ artifacts' = artifacts \cup {"knowledge_graph.gml"}
    /\ pc' = "save_summaries"
    /\ UNCHANGED <<pdf_url, pdfExists, units, llmVars, extractVars, buildVars,
                   detectVars, sumVars, queryVars>>

\* lines 62-66: the summaries file is written
MainSaveSummaries ==
    /\ pc = "save_summaries"
    /\ artifacts' = artifacts \cup {"community_summaries.json"}
    /\ pc' = "done"
    /\ UNCHANGED <<pdf_url, pdfExists, units, llmVars, extractVars, buildVars,
                   detectVars, sumVars, queryVars>>

\* lines 54, 59, 62-63: os.makedirs, nx.write_gml, open or json.dump raises
MainSaveFail ==
    /\ pc \in {"save_graph", "save_summaries"}
    /\ pc' = "raised"
    /\ UNCHANGED <<mainVars, llmVars, extractVars, buildVars, detectVars, sumVars,
                   queryVars>>

\* lines 68-69
MainExcept ==
    /\ pc = "raised"
    /\ pc' = "failed"
    /\ UNCHANGED <<mainVars, llmVars, extractVars, buildVars, detectVars, sumVars,
                   queryVars>>

-----------------------------------------------------------------------------
(* run_query.py: main *)

\* A check that takes no content for empty.
IsNeverEmpty(community_summaries_) == FALSE

\* if not community_summaries
IsEmptySummaries(community_summaries_) == Len(community_summaries_) = 0

\* lines 18-21
QueryMissing ==
    /\ pc = "q_start"
    /\ ~summariesFile.exists
    /\ pc' = "q_exit_missing"
    /\ UNCHANGED <<queryVars, llmVars, mainVars, extractVars, buildVars, detectVars,
                   sumVars>>

\* lines 23-24: json.load returns the content, or raises
QueryLoad ==
    /\ pc = "q_start"
    /\ summariesFile.exists
    /\ IF summariesFile.valid
       THEN /\ loaded' = summariesFile.content
            /\ pc' = "q_loaded"
       ELSE /\ pc' = "q_raised"
            /\ UNCHANGED loaded
    /\ UNCHANGED <<summariesFile, partials, answer, llmVars, mainVars, extractVars,
                   buildVars, detectVars, sumVars>>

\* lines 26-28
QueryEmpty ==
    /\ pc = "q_loaded"
    /\ IsEmptySummaries(loaded)
    /\ pc' = "q_exit_empty"
    /\ UNCHANGED <<queryVars, llmVars, mainVars, extractVars, buildVars, detectVars,
                   sumVars>>

\* lines 30-33: LLMHandler is constructed, or raises
QueryInitLLM ==
    /\ pc = "q_loaded"
    /\ ~IsEmptySummaries(loaded)
    /\ \/ /\ llmCreated' = TRUE
          /\ pc' = "q_answer"
       \/ /\ pc' = "q_raised"
          /\ UNCHANGED llmCreated
    /\ UNCHANGED <<llmCalls, queryVars, mainVars, extractVars, buildVars, detectVars,
                   sumVars>>

NoAnswer == "no answer found"

\* generate_global_answer, map phase: the partial answer of the next record;
\* a failed call degrades to the empty answer.
QueryMap ==
    /\ pc = "q_answer"
    /\ Len(partials) < Len(loaded)
    /\ \E partial \in {"", "A partial answer."} : partials' = Append(partials, partial)
    /\ llmCalls' = llmCalls + 1
    /\ UNCHANGED <<pc, summariesFile, loaded, answer, llmCreated, mainVars,
                   extractVars, buildVars, detectVars, sumVars>>

\* generate_global_answer, reduce phase: one more call unless every partial
\* answer is empty.
QueryReduce ==
    /\ pc = "q_answer"
    /\ Len(partials) = Len(loaded)
    /\ IF \A i \in 1..Len(partials) : partials[i] = ""
       THEN /\ answer' = NoAnswer
            /\ UNCHANGED llmCalls
       ELSE /\ answer' = "A final answer."
            /\ llmCalls' = llmCalls + 1
    /\ pc' = "q_print"
    /\ UNCHANGED <<summariesFile, loaded, partials, llmCreated, mainVars, extractVars,
                   buildVars, detectVars, sumVars>>

\* lines 39-45
QueryPrint ==
    /\ pc = "q_print"
    /\ pc' = "q_done"
    /\ UNCHANGED <<queryVars, llmVars, mainVars, extractVars, buildVars, detectVars,
                   sumVars>>

\* lines 47-48
QueryExcept ==
    /\ pc = "q_raised"
    /\ pc' = "q_failed"
    /\ UNCHANGED <<queryVars, llmVars, mainVars, extractVars, buildVars, detectVars,
                   sumVars>>

-----------------------------------------------------------------------------
(* Specifications *)

\* A run of the indexing script.
Init ==
    /\ pc = "start"
    /\ pdf_url \in BOOLEAN
    /\ pdfExists \in BOOLEAN
    /\ units = 0
    /\ llmCreated = FALSE /\ llmCalls = 0
    /\ elements = <<>> /\ failedUnits = {}
    /\ bi = 1 /\ pos = 1 /\ graph = EmptyGraph /\ applied = <<>>
    /\ comps = <<>> /\ all_communities = <<>> /\ fellBack = {} /\ partitioned = {}
    /\ communities = <<>> /\ community_summaries = <<>> /\ summaryCalls = <<>>
    /\ artifacts = {}
    /\ summariesFile = [exists |-> FALSE, valid |-> FALSE, content |-> <<>>]
    /\ loaded = <<>> /\ partials = <<>> /\ answer = ""

Next ==
    \/ MainDownload \/ MainNoDownload \/ MainPdfMissing \/ MainLoad \/ MainInitLLM
    \/ ExtractOk \/ ExtractFail \/ ExtractReturn
    \/ BuildSkip \/ BuildApply \/ BuildDiscard \/ BuildNextSummary \/ BuildReturn
    \/ DetectPartition \/ DetectFallback \/ DetectConvertFail \/ DetectReturn
    \/ SummarizeOk \/ SummarizeFail \/ SummarizeReturn
    \/ MainSaveGraph \/ MainSaveSummaries \/ MainSaveFail \/ MainExcept

Spec == Init /\ [][Next]_vars

\* build_knowledge_graph on every list of at most MaxUnits summaries that
\* hold at most MaxLines lines in all: the lines ls, cut into the summaries.
InitBuild ==
    /\ pc = "build"
    /\ \E n \in 0..MaxUnits : \E ls \in LineSeqs(MaxLines) :
         \E heads \in [1..n -> Heads] : \E cut \in [1..Len(ls) -> 1..n] :
            /\ Monotone(cut)
            /\ \A b \in 1..n : heads[b] = ExtractSentinel.head
                                  => \A i \in 1..Len(ls) : cut[i] # b
            /\ elements = [b \in 1..n |-> Text(heads[b], LinesOf(ls, cut, b, 1))]
    /\ pdf_url = FALSE /\ pdfExists = FALSE /\ units = Len(elements)
    /\ llmCreated = FALSE /\ llmCalls = 0
    /\ failedUnits = {}
    /\ bi = 1 /\ pos = 1 /\ graph = EmptyGraph /\ applied = <<>>
    /\ comps = <<>> /\ all_communities = <<>> /\ fellBack = {} /\ partitioned = {}
    /\ communities = <<>> /\ community_summaries = <<>> /\ summaryCalls = <<>>
    /\ artifacts = {}
    /\ summariesFile = [exists |-> FALSE, valid |-> FALSE, content |-> <<>>]
    /\ loaded = <<>> /\ partials = <<>> /\ answer = ""

NextBuild ==
    BuildSkip \/ BuildApply \/ BuildDiscard \/ BuildNextSummary \/ BuildReturn

SpecBuild == InitBuild /\ [][NextBuild]_vars

\* Graphs over Names: any of the names as nodes, any pairs of them (a node
\* with itself included) as edges.
DrawnLabel(e) ==
    IF Cardinality(e) = 1 THEN "is" ELSE IF "A" \in e THEN "knows" ELSE "mentors"

DrawnGraphs ==
    UNION { { [nodes |-> ListFrom(NodeNames, N, 1), label |-> [e \in E |-> DrawnLabel(e)]]
                : E \in SUBSET {{x, y} : x, y \in N} }
            : N \in SUBSET Names }

\* detect_communities on every drawn graph.
InitDetect ==
    /\ pc = "detect"
    /\ graph \in DrawnGraphs
    /\ comps = ConnectedComponents(graph)
    /\ pdf_url = FALSE /\ pdfExists = FALSE /\ units = 0
    /\ llmCreated = FALSE /\ llmCalls = 0
    /\ elements = <<>> /\ failedUnits = {}
    /\ bi = 1 /\ pos = 1 /\ applied = <<>>
    /\ all_communities = <<>> /\ fellBack = {} /\ partitioned = {}
    /\ communities = <<>> /\ community_summaries = <<>> /\ summaryCalls = <<>>
    /\ artifacts = {}
    /\ summariesFile = [exists |-> FALSE, valid |-> FALSE, content |-> <<>>]
    /\ loaded = <<>> /\ partials = <<>> /\ answer = ""

NextDetect ==
    DetectPartition \/ DetectFallback \/ DetectConvertFail \/ DetectReturn

SpecDetect == InitDetect /\ [][NextDetect]_vars

\* Community lists: at most MaxComms communities, each some of the names.
CommunityLists ==
    UNION { [1..k -> {ListFrom(NodeNames, S, 1) : S \in (SUBSET Names) \ {{}}}]
            : k \in 0..MaxComms }

\* summarize_communities on every drawn graph and community list.
InitSummarize ==
    /\ pc = "summarize"
    /\ graph \in DrawnGraphs
    /\ communities \in CommunityLists
    /\ pdf_url = FALSE /\ pdfExists = FALSE /\ units = 0
    /\ llmCreated = TRUE /\ llmCalls = 0
    /\ elements = <<>> /\ failedUnits = {}
    /\ bi = 1 /\ pos = 1 /\ applied = <<>>
    /\ comps = <<>> /\ all_communities = <<>> /\ fellBack = {} /\ partitioned = {}
    /\ community_summaries = <<>> /\ summaryCalls = <<>>
    /\ artifacts = {}
    /\ summariesFile = [exists |-> FALSE, valid |-> FALSE, content |-> <<>>]
    /\ loaded = <<>> /\ partials = <<>> /\ answer = ""

NextSummarize == SummarizeOk \/ SummarizeFail \/ SummarizeReturn

SpecSummarize == InitSummarize /\ [][NextSummarize]_vars

\* The summaries file of a query run: absent, not JSON, or a list of at most
\* MaxRecords records as the indexing script writes them.
SummaryRecords ==
    { [community_id |-> 0, nodes |-> <<"A", "B">>, summary |-> text]
        : text \in SummaryResponses }

SummariesFiles ==
    { [exists |-> FALSE, valid |-> FALSE, content |-> <<>>],
      [exists |-> TRUE, valid |-> FALSE, content |-> <<>>] }
    \cup { [exists |-> TRUE, valid |-> TRUE, content |-> c]
             : c \in UNION {[1..k -> SummaryRecords] : k \in 0..MaxRecords} }

\* A run of the query script.
InitQuery ==
    /\ pc = "q_start"
    /\ summariesFile \in SummariesFiles
    /\ pdf_url = FALSE /\ pdfExists = FALSE /\ units = 0
    /\ llmCreated = FALSE /\ llmCalls = 0
    /\ elements = <<>> /\ failedUnits = {}
    /\ bi = 1 /\ pos = 1 /\ graph = EmptyGraph /\ applied = <<>>
    /\ comps = <<>> /\ all_communities = <<>> /\ fellBack = {} /\ partitioned = {}
    /\ communities = <<>> /\ community_summaries = <<>> /\ summaryCalls = <<>>
    /\ artifacts = {}
    /\ loaded = <<>> /\ partials = <<>> /\ answer = ""

NextQuery ==
    \/ QueryMissing \/ QueryLoad \/ QueryEmpty \/ QueryInitLLM
    \/ QueryMap \/ QueryReduce \/ QueryPrint \/ QueryExcept

SpecQuery == InitQuery /\ [][NextQuery]_vars

-----------------------------------------------------------------------------
(* Properties of build_knowledge_graph, under SpecBuild *)

\* C5: in every state of the fold, every edge joins two nodes of the graph,
\* every edge's node pair is the source and target of a triple applied so
\* far, the source and target of every applied triple are nodes, and an
\* empty input leaves the graph empty.
C5_GraphContainment ==
    /\ \A e \in Edges(graph) :
         /\ e \subseteq NodeSet(graph)
         /\ \E k \in 1..Len(applied) : e = {applied[k].source, applied[k].target}
    /\ \A k \in 1..Len(applied) :
         {applied[k].source, applied[k].target} \subseteq NodeSet(graph)
    /\ Len(elements) = 0 => graph = EmptyGraph

C5_Witness ==
    /\ pc = "build"
    /\ bi <= Len(elements)
    /\ Len(applied) >= 2
    /\ Cardinality(Edges(graph)) >= 2

\* The triples applied so far whose source and target are the pair e.
AppliedTo(e) == {k \in 1..Len(applied) : {applied[k].source, applied[k].target} = e}

\* C7: the graph has an edge for exactly the node pairs of the applied
\* triples, and the label of each is the relation of the last applied triple
\* naming that pair, in either direction.
C7_LastWriteWins ==
    /\ Edges(graph) = {{applied[k].source, applied[k].target} : k \in 1..Len(applied)}
    /\ \A e \in Edges(graph) :
         \E k \in AppliedTo(e) :
            /\ \A j \in AppliedTo(e) : j <= k
            /\ graph.label[e] = applied[k].relation

C7_Witness ==
    \E j, k \in 1..Len(applied) :
       /\ j < k
       /\ applied[j].source = applied[k].target
       /\ applied[j].target = applied[k].source
       /\ applied[j].source # applied[j].target
       /\ applied[j].relation # applied[k].relation
       /\ graph.label[{applied[k].source, applied[k].target}] = applied[k].relation

\* The triples of the relationship lines whose three fields are non-empty.
RECURSIVE WellFormedTriples(_, _)
WellFormedTriples(lines, i) ==
    IF i > Len(lines) THEN <<>>
    ELSE (IF /\ lines[i].kind = "rel"
             /\ lines[i].s # "" /\ lines[i].r # "" /\ lines[i].t # ""
          THEN <<[source |-> lines[i].s, relation |-> lines[i].r,
                  target |-> lines[i].t]>>
          ELSE <<>>) \o WellFormedTriples(lines, i + 1)

RECURSIVE WellFormedOfAll(_, _)
WellFormedOfAll(summaries, i) ==
    IF i > Len(summaries) THEN <<>>
    ELSE (IF HasMarker(summaries[i]) THEN WellFormedTriples(summaries[i].lines, 1)
          ELSE <<>>) \o WellFormedOfAll(summaries, i + 1)

\* C8: a relationship line with a blank field is discarded on its own: when
\* the build returns, the triples applied are exactly those of the lines
\* whose three fields are non-empty.
C8_LineTolerance ==
    pc = "detect" => applied = WellFormedOfAll(elements, 1)

-----------------------------------------------------------------------------
(* Properties of detect_communities, under SpecDetect *)

\* The communities cs are non-empty, list no node twice, are pairwise
\* disjoint, and together hold exactly the nodes of G.
Covers(cs, G) ==
    /\ \A i \in 1..Len(cs) :
         /\ Len(cs[i]) > 0
         /\ Cardinality(SetOf(cs[i])) = Len(cs[i])
    /\ \A i, j \in 1..Len(cs) : i # j => SetOf(cs[i]) \cap SetOf(cs[j]) = {}
    /\ UNION {SetOf(cs[i]) : i \in 1..Len(cs)} = NodeSet(G)

\* C1: the communities detect_communities returns, whatever each partition
\* call returned or raised, are non-empty, pairwise disjoint and cover the
\* node set exactly; none for the empty graph, one singleton for a graph of
\* one node.
C1_Coverage ==
    pc = "summarize" =>
        /\ Covers(communities, graph)
        /\ Len(graph.nodes) = 0 => Len(communities) = 0
        /\ Len(graph.nodes) = 1 => communities = <<graph.nodes>>

C1_Witness ==
    /\ pc = "summarize"
    /\ fellBack # {}
    /\ \E p \in partitioned : Len(p.partition) >= 2

\* The communities that hold a node of component c.
CommunitiesOf(c) ==
    {i \in 1..Len(all_communities) : SetOf(all_communities[i]) \cap c # {}}

\* C3: a failure on one component, at any step of its processing, never
\* leaves detect_communities through an exception; a component that failed
\* contributes exactly one community, the whole component with every node
\* once, and the other components keep the partition found for them.
C3_PartitionFallback ==
    /\ pc # "raised"
    /\ \A c \in fellBack :
         \E i \in 1..Len(all_communities) :
            /\ CommunitiesOf(c) = {i}
            /\ SetOf(all_communities[i]) = c
            /\ Len(all_communities[i]) = Cardinality(c)
    /\ \A p \in partitioned :
         {SetOf(all_communities[i]) : i \in CommunitiesOf(p.component)}
             = SetOf(p.partition)

-----------------------------------------------------------------------------
(* Properties of summarize_communities, under SpecSummarize *)

\* The record of community i (from 1) has the id and the nodes of its community.
RecordMatches(i) ==
    /\ community_summaries[i].community_id = i - 1
    /\ community_summaries[i].nodes = communities[i]

\* C2 as amended: summarize_communities never raises; it holds one record per
\* community processed, in order, with community_id = i and the community's
\* nodes, and returns with one per community; a record carries the sentinel
\* when its call failed and the model's response otherwise.
C2_FailureIsolation ==
    /\ pc \in {"summarize", "save_graph"}
    /\ Len(community_summaries) = Len(summaryCalls)
    /\ Len(community_summaries) <= Len(communities)
    /\ pc = "save_graph" => Len(community_summaries) = Len(communities)
    /\ \A i \in 1..Len(community_summaries) :
         /\ RecordMatches(i)
         /\ community_summaries[i].summary =
                IF summaryCalls[i].raised THEN SummarySentinel
                ELSE summaryCalls[i].response

C2_Witness ==
    /\ pc = "save_graph"
    /\ Len(communities) = 2
    /\ summaryCalls[1].raised
    /\ ~summaryCalls[2].raised
    /\ community_summaries[1].summary = SummarySentinel
    /\ community_summaries[2].summary # SummarySentinel

\* C2 as stated: a returned record carries the sentinel exactly when the
\* model call for its community failed.
C2_SentinelExactlyWhenFailed ==
    pc = "save_graph" =>
        /\ Len(community_summaries) = Len(communities)
        /\ \A i \in 1..Len(community_summaries) :
             /\ RecordMatches(i)
             /\ community_summaries[i].summary = SummarySentinel
                    <=> summaryCalls[i].raised
             /\ ~summaryCalls[i].raised
                    => community_summaries[i].summary = summaryCalls[i].response

\* The node pairs of the relationship lines rel.
RenderedPairs(rel) == {{rel[k].u, rel[k].v} : k \in 1..Len(rel)}

\* C6: the "Relationships:" lines rendered for a community are exactly the
\* edges of the graph with both endpoints in the community, each once and
\* with its label; an edge with an endpoint outside never appears.
C6_RenderingExclusion ==
    \A i \in 1..Len(summaryCalls) :
       LET rel == summaryCalls[i].community_data.relationships
           S == SetOf(communities[i])
       IN /\ RenderedPairs(rel) = {e \in Edges(graph) : e \subseteq S}
          /\ Cardinality(RenderedPairs(rel)) = Len(rel)
          /\ \A k \in 1..Len(rel) :
               rel[k].label = graph.label[{rel[k].u, rel[k].v}]
          /\ summaryCalls[i].community_data.entities = communities[i]

C6_Witness ==
    \E i \in 1..Len(summaryCalls) :
       LET rel == summaryCalls[i].community_data.relationships
           S == SetOf(communities[i])
       IN /\ Len(rel) >= 1
          /\ \E e \in Edges(graph) : e \cap S # {} /\ ~(e \subseteq S)
          /\ \E e \in Edges(graph) : e \cap S = {}

-----------------------------------------------------------------------------
(* Properties of the query script, under SpecQuery *)

ModelUsed == llmCreated \/ llmCalls > 0 \/ Len(partials) > 0 \/ answer # ""

\* C4: with the summaries file missing the run only ever ends at the
\* "not found" exit, with empty loaded content only at the "empty" exit, and
\* in both no LLMHandler is constructed and no model call is made; the model
\* is used only after a non-empty list of summaries has been loaded.
C4_FatalSetupShortCircuit ==
    /\ ~summariesFile.exists =>
          pc \in {"q_start", "q_exit_missing"} /\ ~ModelUsed
    /\ (pc \in {"q_loaded", "q_exit_empty"} /\ Len(loaded) = 0) => ~ModelUsed
    /\ (summariesFile.exists /\ summariesFile.valid /\ Len(summariesFile.content) = 0)
          => pc \in {"q_start", "q_loaded", "q_exit_empty"} /\ ~ModelUsed
    /\ ModelUsed =>
          /\ summariesFile.exists
          /\ loaded = summariesFile.content
          /\ Len(loaded) > 0

C4_Witness ==
    /\ pc = "q_exit_empty"
    /\ summariesFile.exists
    /\ Len(loaded) = 0
    /\ ~llmCreated

-----------------------------------------------------------------------------
(* Properties of the indexing script, under Spec *)

\* C9: an artifact is written only once extraction, graph building, community
\* detection and summarization have all run to their end; a run that stops
\* because the document is missing or yields no text unit has constructed no
\* model, issued no model call and written no artifact.
C9_ArtifactOrdering ==
    /\ artifacts # {} =>
          /\ pc \in {"save_summaries", "done", "raised", "failed"}
          /\ units > 0 /\ Len(elements) = units
          /\ bi > Len(elements) /\ graph = BuildGraph(elements)
          /\ comps = <<>> /\ Covers(all_communities, graph)
          /\ communities = all_communities
          /\ Len(community_summaries) = Len(communities)
    /\ pc \in {"exit_no_pdf", "exit_no_units"} =>
          ~llmCreated /\ llmCalls = 0 /\ artifacts = {}

C9_Witness ==
    /\ pc = "done"
    /\ artifacts = {"knowledge_graph.gml", "community_summaries.json"}
    /\ Len(community_summaries) >= 2
    /\ llmCalls = units + Len(communities)

\* The elements of the units whose model call returned.
RECURSIVE Successful(_, _, _)
Successful(es, failed, i) ==
    IF i > Len(es) THEN <<>>
    ELSE (IF i \in failed THEN <<>> ELSE <<es[i]>>) \o Successful(es, failed, i + 1)

ExtractionReturned ==
    pc \in {"build", "detect", "summarize", "save_graph", "save_summaries", "done"}

BuildReturned ==
    pc \in {"detect", "summarize", "save_graph", "save_summaries", "done"}

\* C10: extraction returns one element per text unit, the sentinel text for
\* each unit whose model call failed and a response for each other unit; the
\* graph built from that list is the graph built from the responses of the
\* successful units alone.
C10_ExtractionFailureIsolation ==
    /\ pc = "extract" => Len(elements) <= units
    /\ ExtractionReturned =>
          /\ Len(elements) = units
          /\ \A i \in 1..units :
               IF i \in failedUnits THEN elements[i] = ExtractSentinel
               ELSE elements[i] \in Responses
    /\ BuildReturned => graph = BuildGraph(Successful(elements, failedUnits, 1))

C10_Witness ==
    /\ pc = "detect"
    /\ units = 2
    /\ failedUnits = {1}
    /\ Len(applied) >= 1
    /\ graph # EmptyGraph

====
